---- MODULE Spec2Model ----
(***************************************************************************)
(* Model of packages/cli/src/utilities/ast-utils.ts (the source-project    *)
(* helpers of the CLI) and of the admin-ui LocaleDatePipe.                 *)
(*                                                                         *)
(* Strings are sequences of one-character strings, so that the text        *)
(* rewriting the helpers do (separator replacement, extension stripping,   *)
(* case conversion) is computed rather than assumed.  Each helper has a    *)
(* specification of its own (SpecPath, SpecKebab, SpecImports, SpecConfig, *)
(* SpecLoader, SpecPipe); the helpers share no state.                      *)
(***************************************************************************)
EXTENDS Integers, Sequences, FiniteSets, TLC

VARIABLES
    \* getRelativeImportPath / convertPathToRelativeImport
    pathFrom, pathTo, pathSep, pathOut, pathAgain, pathPc,
    \* kebabize
    kebIn, kebOut, kebPc,
    \* addImportsToFile: the import declarations of the target source file,
    \* in file order, and a record of the last call
    impDecls, impLast,
    \* getVendureConfig: the source files of the project in iteration order,
    \* whether the project knows a 'src' directory, the listing of that
    \* directory on disk, and a record of the last call
    gvcProject, gvcSrcKnown, gvcListing, gvcLast,
    \* getTsMorphProject: whether tsconfig.json exists in the working
    \* directory, the projects constructed and the project loads made so far,
    \* and a record of the last call
    fsTsConfig, ldProjects, ldLoads, ldLast,
    \* LocaleDatePipe: whether its subscription is live, this.locale (empty:
    \* undefined), the markForCheck calls made, the UI language last
    \* delivered to the pipe, and a record of the last transform
    pipeSubscribed, pipeLocale, pipeMarks, pipeEmitted, pipeLast

pathVars == <<pathFrom, pathTo, pathSep, pathOut, pathAgain, pathPc>>
kebVars == <<kebIn, kebOut, kebPc>>
impVars == <<impDecls, impLast>>
gvcVars == <<gvcProject, gvcSrcKnown, gvcListing, gvcLast>>
ldVars == <<fsTsConfig, ldProjects, ldLoads, ldLast>>
pipeVars == <<pipeSubscribed, pipeLocale, pipeMarks, pipeEmitted, pipeLast>>
vars == <<pathVars, kebVars, impVars, gvcVars, ldVars, pipeVars>>

----------------------------------------------------------------------------
(* Bounds *)

\* longest directory chain of a location below the file-system root
MaxDepth == 2
\* longest identifier handed to kebabize
MaxStrLen == 3
\* most import declarations the target file is let to hold
MaxDecls == 2
\* most source files the project holds before a call of getVendureConfig
MaxFiles == 2
\* most projects constructed by getTsMorphProject
MaxProjects == 2
\* most UI-language changes delivered to the pipe
MaxEvents == 2

----------------------------------------------------------------------------
(* Strings *)

Max(S) == CHOOSE x \in S : \A y \in S : y <= x

\* Array.prototype.find as an index: the first of the indices the test
\* accepts, 0 when it accepts none
FirstIndex(hits) == IF hits = {} THEN 0 ELSE CHOOSE i \in hits : \A j \in hits : i <= j

SeqsUpTo(S, n) == UNION {[1..k -> S] : k \in 0..n}

RECURSIVE Concat(_)
\* Array.prototype.join('') of a sequence of strings
Concat(ss) == IF ss = <<>> THEN <<>> ELSE Head(ss) \o Concat(Tail(ss))

RECURSIVE Join(_, _)
\* the segments of a path joined by a separator
Join(segs, sep) ==
    IF segs = <<>> THEN <<>>
    ELSE IF Len(segs) = 1 THEN Head(segs)
    ELSE Head(segs) \o <<sep>> \o Join(Tail(segs), sep)

StartsWith(s, p) == Len(s) >= Len(p) /\ SubSeq(s, 1, Len(p)) = p

IsPrefix(p, s) == StartsWith(s, p)

HasSubstring(s, p) == \E i \in 1..(Len(s) - Len(p) + 1) : SubSeq(s, i, i + Len(p) - 1) = p

----------------------------------------------------------------------------
(* Path Normalizer: getRelativeImportPath, convertPathToRelativeImport *)

Slash == "/"
Backslash == "\\"

\* File and directory names the locations are built from: a plain name, a
\* name with an extension, a dot-file, a name ending in a dot, a name with
\* two dots.
Segs ==
    { <<"a">>, <<"b", ".", "t">>, <<".", "a">>, <<"a", ".">>, <<"a", ".", "b", ".", "t">> }

\* SourceFile.getFilePath() / Directory.getPath(): an absolute, normalised
\* path, held as the sequence of its segments below the root.
Locations == SeqsUpTo(Segs, MaxDepth)

RECURSIVE CommonLen(_, _)
CommonLen(a, b) ==
    IF a = <<>> \/ b = <<>> \/ Head(a) # Head(b) THEN 0
    ELSE 1 + CommonLen(Tail(a), Tail(b))

\* path.relative(a, b): one '..' for every segment of a below the common
\* ancestor, then the segments of b below it, joined by the platform's
\* separator.
PathRelative(a, b, sep) ==
    LET k == CommonLen(a, b)
        ups == [i \in 1..(Len(a) - k) |-> <<".", ".">>]
    IN Join(ups \o SubSeq(b, k + 1, Len(b)), sep)

\* filePath.replace(/\\/g, '/')
ReplaceBackslashes(s) == [i \in 1..Len(s) |-> IF s[i] = Backslash THEN Slash ELSE s[i]]

RECURSIVE CollapseDoubleSlashes(_)
\* s.replace(/\/\//g, '/'): the matches are taken left to right and do not
\* overlap.
CollapseDoubleSlashes(s) ==
    IF Len(s) < 2 THEN s
    ELSE IF s[1] = Slash /\ s[2] = Slash
         THEN <<Slash>> \o CollapseDoubleSlashes(SubSeq(s, 3, Len(s)))
         ELSE <<s[1]>> \o CollapseDoubleSlashes(Tail(s))

\* path.parse(p), its dir and name fields (indices are 1-based here).
PathParse(p) ==
    IF p = <<>> THEN [dir |-> <<>>, name |-> <<>>]
    ELSE
    LET isAbsolute == p[1] = Slash
        start == IF isAbsolute THEN 2 ELSE 1
        nonSlash == {i \in start..Len(p) : p[i] # Slash}
        \* index of the last character of the base, 0 when there is none
        end == IF nonSlash = {} THEN 0 ELSE Max(nonSlash)
        slashes == {i \in start..end : p[i] = Slash}
        startPart == IF slashes = {} THEN 1 ELSE Max(slashes) + 1
        baseStart == IF startPart = 1 /\ isAbsolute THEN 2 ELSE startPart
        dots == {i \in baseStart..end : p[i] = "."}
        startDot == IF dots = {} THEN 0 ELSE Max(dots)
        preDotState ==
            IF startDot = 0 \/ startDot = baseStart THEN 0
            ELSE IF p[baseStart] = "." THEN 1 ELSE -1
        noExt ==
            \/ startDot = 0
            \/ preDotState = 0
            \/ preDotState = 1 /\ startDot = end /\ startDot = startPart + 1
        name ==
            IF end = 0 THEN <<>>
            ELSE IF noExt THEN SubSeq(p, baseStart, end)
            ELSE SubSeq(p, baseStart, startDot - 1)
        dir ==
            IF startPart > 1 THEN SubSeq(p, 1, startPart - 2)
            ELSE IF isAbsolute THEN <<Slash>>
            ELSE <<>>
    IN [dir |-> dir, name |-> name]

convertPathToRelativeImport(filePath) ==
    LET normalizedPath == ReplaceBackslashes(filePath)
        parsedPath == PathParse(normalizedPath)
    IN CollapseDoubleSlashes(<<".", Slash>> \o parsedPath.dir \o <<Slash>> \o parsedPath.name)

getRelativeImportPath_Swapped(from, to, sep) ==
    convertPathToRelativeImport(PathRelative(from, to, sep))

\* from, to: the paths of locations.from and locations.to
getRelativeImportPath(from, to, sep) ==
    convertPathToRelativeImport(PathRelative(to, from, sep))

PathInit ==
    /\ pathFrom \in Locations
    /\ pathTo \in Locations
    /\ pathSep \in {Slash, Backslash}
    /\ pathOut = <<>>
    /\ pathAgain = <<>>
    /\ pathPc = "start"

PathIdle ==
    /\ pathFrom = <<>>
    /\ pathTo = <<>>
    /\ pathOut = <<>>
    /\ pathAgain = <<>>
    /\ pathPc = "idle"

\* getRelativeImportPath({ from, to })
GetRelativeImportPath ==
    /\ pathPc = "start"
    /\ pathOut' = getRelativeImportPath(pathFrom, pathTo, pathSep)
    /\ pathPc' = "converted"
    /\ UNCHANGED <<pathFrom, pathTo, pathSep, pathAgain>>

\* convertPathToRelativeImport applied to a path that is already one of its
\* outputs
ConvertAgain ==
    /\ pathPc = "converted"
    /\ pathAgain' = convertPathToRelativeImport(pathOut)
    /\ pathPc' = "reconverted"
    /\ UNCHANGED <<pathFrom, pathTo, pathSep, pathOut>>

PathNext ==
    \/ GetRelativeImportPath /\ UNCHANGED <<kebVars, impVars, gvcVars, ldVars, pipeVars>>
    \/ ConvertAgain /\ UNCHANGED <<kebVars, impVars, gvcVars, ldVars, pipeVars>>

----------------------------------------------------------------------------
(* Case Converter: kebabize *)

KebLetters == {"a", "b", "B", "1"}

\* String.prototype.toUpperCase / toLowerCase on one character
ToUpperCase(c) ==
    CASE c = "a" -> "A" [] c = "b" -> "B" [] c = "c" -> "C" [] c = "f" -> "F"
      [] c = "o" -> "O" [] c = "r" -> "R" [] OTHER -> c

ToLowerCase(c) ==
    CASE c = "A" -> "a" [] c = "B" -> "b" [] c = "C" -> "c" [] c = "F" -> "f"
      [] c = "O" -> "o" [] c = "R" -> "r" [] OTHER -> c

KebInputs ==
    SeqsUpTo(KebLetters, MaxStrLen)
        \cup { <<"f", "o", "o", "B", "a", "r">>, <<"F", "o", "o", "B", "a", "r">>,
               <<"a", "b", "c">> }

kebabize(str) ==
    Concat([idx \in 1..Len(str) |->
        IF ToUpperCase(str[idx]) = str[idx]
        THEN (IF idx # 1 THEN <<"-">> ELSE <<>>) \o <<ToLowerCase(str[idx])>>
        ELSE <<str[idx]>>])

KebInit ==
    /\ kebIn \in KebInputs
    /\ kebOut = <<>>
    /\ kebPc = "start"

KebIdle ==
    /\ kebIn = <<>>
    /\ kebOut = <<>>
    /\ kebPc = "idle"

Kebabize ==
    /\ kebPc = "start"
    /\ kebOut' = kebabize(kebIn)
    /\ kebPc' = "done"
    /\ UNCHANGED kebIn

KebNext == Kebabize /\ UNCHANGED <<pathVars, impVars, gvcVars, ldVars, pipeVars>>

----------------------------------------------------------------------------
(* Import Declaration Editor: addImportsToFile *)

Undefined == "undefined"

\* the path of the source file the imports are added to, and of the source
\* file that is passed as a module specifier
TargetFile == << <<"a">>, <<"b", ".", "t">> >>
ReferencedFile == << <<"a">>, <<"a", ".", "b", ".", "t">> >>

\* options.moduleSpecifier: a string, or a SourceFile
StringSpecifier(value) == [kind |-> "string", value |-> value, path |-> <<>>]
FileSpecifier(path) == [kind |-> "file", value |-> <<>>, path |-> path]

ModuleSpecifiers ==
    { StringSpecifier(<<"m">>),
      StringSpecifier(<<".", "/", ".", ".", "/", "a", ".", "b">>),
      FileSpecifier(ReferencedFile) }

\* the namedImports of a call: sequences of names without a repeated name
NamedRequests == { <<"A">>, <<"A", "B">> }

\* An import declaration: module specifier literal, default import,
\* namespace import, named imports.
ImportDeclaration(spec, def, ns, named) ==
    [spec |-> spec, def |-> def, ns |-> ns, named |-> named]

NoDeclaration == ImportDeclaration(<<>>, Undefined, Undefined, <<>>)

\* The options of a call.  namedImports is absent (hasNamed = FALSE) or a
\* sequence of unique names; namespaceImport is Undefined or a name; order
\* is empty (not given) or holds the index.
ImportOptions ==
    { [moduleSpecifier |-> m, hasNamed |-> named # <<>>, namedImports |-> named,
       namespaceImport |-> ns, order |-> order] :
        m \in ModuleSpecifiers, named \in {<<>>} \cup NamedRequests,
        ns \in {Undefined, "N"}, order \in {{}, {0}} }

\* declaration.getModuleSpecifier().getLiteralValue() === options.moduleSpecifier:
\* strict equality of the literal, a string, with the option as it was passed
SpecifierEquals(literal, moduleSpecifier) ==
    moduleSpecifier.kind = "string" /\ moduleSpecifier.value = literal

\* sourceFile.getImportDeclaration(predicate): the index of the first
\* declaration the predicate accepts, 0 when there is none
getImportDeclaration(decls, moduleSpecifier) ==
    FirstIndex({i \in 1..Len(decls) : SpecifierEquals(decls[i].spec, moduleSpecifier)})

getModuleSpecifierString(moduleSpecifier, sourceFile, sep) ==
    IF moduleSpecifier.kind = "string" THEN moduleSpecifier.value
    ELSE getRelativeImportPath(moduleSpecifier.path, sourceFile, sep)

\* importDeclaration.setOrder(k) on the declaration that was just appended
SetOrder(decls, new, order) ==
    IF order = {} THEN Append(decls, new)
    ELSE LET k == CHOOSE x \in order : TRUE
         IN SubSeq(decls, 1, k) \o <<new>> \o SubSeq(decls, k + 1, Len(decls))

\* The branch of a call that finds no existing declaration.  rejects: the
\* project library refuses a declaration that mixes a namespace import with
\* named imports, and the call ends with its exception.
AddDeclaration(decls, options, moduleSpecifier, rejects) ==
    LET named == IF options.hasNamed THEN options.namedImports ELSE <<>>
        new == ImportDeclaration(moduleSpecifier, Undefined, options.namespaceImport, named)
    IN IF rejects /\ options.namespaceImport # Undefined /\ named # <<>>
       THEN decls
       ELSE SetOrder(decls, new, options.order)

NamespaceWanted_IgnoringDefault(d, options) ==
    options.namespaceImport # Undefined /\ d.ns = Undefined

\* lines 113-117: the namespace import is set on the existing declaration
NamespaceWanted(d, options) ==
    /\ options.namespaceImport # Undefined
    /\ d.ns = Undefined
    /\ d.def = Undefined

NamesToAdd_Unchecked(d, options) ==
    IF options.hasNamed THEN options.namedImports ELSE <<>>

\* lines 120-126: the requested names that are added to the existing
\* declaration, in the order of the request
NamesToAdd(d, options) ==
    IF options.hasNamed
    THEN SelectSeq(options.namedImports,
                   LAMBDA n : ~(\E i \in 1..Len(d.named) : d.named[i] = n))
    ELSE <<>>

\* The branch of a call that finds an existing declaration d.
MergeDeclaration(d, options, rejects) ==
    LET nsThrows == NamespaceWanted(d, options) /\ rejects /\ d.named # <<>>
        d1 == IF NamespaceWanted(d, options)
              THEN [d EXCEPT !.ns = options.namespaceImport] ELSE d
        toAdd == NamesToAdd(d, options)
        namedThrows == toAdd # <<>> /\ rejects /\ d1.ns # Undefined
    IN IF nsThrows THEN d
       ELSE IF namedThrows THEN d1
       ELSE [d1 EXCEPT !.named = @ \o toAdd]

addImportsToFile(decls, options, rejects, sep) ==
    LET existingDeclaration == getImportDeclaration(decls, options.moduleSpecifier)
        moduleSpecifier == getModuleSpecifierString(options.moduleSpecifier, TargetFile, sep)
    IN IF existingDeclaration = 0
       THEN AddDeclaration(decls, options, moduleSpecifier, rejects)
       ELSE [decls EXCEPT ![existingDeclaration] = MergeDeclaration(@, options, rejects)]

\* The file before the first call: no import, or one import of module 'm'
\* with a default import, a namespace import or a named import.
InitialDeclarations ==
    { ImportDeclaration(<<"m">>, "D", Undefined, <<>>),
      ImportDeclaration(<<"m">>, Undefined, "N0", <<>>),
      ImportDeclaration(<<"m">>, Undefined, Undefined, <<"B">>),
      ImportDeclaration(<<"m">>, "D", Undefined, <<"A">>) }

\* What is kept of the last call: which branch it took, the index of the
\* declaration it found, that declaration as it was, the namespace import it
\* asked for, and whether it asked for a name the declaration already had.
LastCall(kind, hit, before, namespaceImport, repeated) ==
    [kind |-> kind, hit |-> hit, before |-> before, namespaceImport |-> namespaceImport,
     repeated |-> repeated]

ImportsInit ==
    /\ impDecls \in {<<>>} \cup {<<d>> : d \in InitialDeclarations}
    /\ impLast = LastCall("none", 0, NoDeclaration, Undefined, FALSE)

ImportsIdle ==
    /\ impDecls = <<>>
    /\ impLast = LastCall("idle", 0, NoDeclaration, Undefined, FALSE)

\* addImportsToFile(sourceFile, options)
\* whether the call mixes a namespace import with named imports in one
\* declaration, which the project library may refuse
MixesNamespaceAndNamed(options, before) ==
    \/ options.namespaceImport # Undefined /\ (options.hasNamed \/ before.named # <<>>)
    \/ before.ns # Undefined /\ options.hasNamed

AddImportsToFile ==
    \E options \in ImportOptions, rejects \in BOOLEAN :
        LET hit == getImportDeclaration(impDecls, options.moduleSpecifier)
            before == IF hit = 0 THEN NoDeclaration ELSE impDecls[hit]
            repeated == \E i \in 1..Len(options.namedImports), j \in 1..Len(before.named) :
                            options.namedImports[i] = before.named[j]
        IN /\ hit = 0 => Len(impDecls) < MaxDecls
           /\ rejects => MixesNamespaceAndNamed(options, before)
           /\ impDecls' = addImportsToFile(impDecls, options, rejects, pathSep)
           /\ impLast' = LastCall(IF hit = 0 THEN "created" ELSE "merged", hit, before,
                                  options.namespaceImport, options.hasNamed /\ repeated)

ImportsNext == AddImportsToFile /\ UNCHANGED <<pathVars, kebVars, gvcVars, ldVars, pipeVars>>

----------------------------------------------------------------------------
(* Named-Config Locator: getVendureConfig *)

\* A file name is held as the pieces around the conventional name, so that
\* endsWith('vendure-config.ts') and includes('vendure-config.ts') are
\* decided on the name itself.
ConfigName == "vendure-config.ts"

EndsWithConfigName(name) == name # <<>> /\ name[Len(name)] = ConfigName

IncludesConfigName(name) == \E i \in 1..Len(name) : name[i] = ConfigName

\* A variable declaration: the text of its type, its initializer, and
\* whether that initializer is an object literal expression.
VariableDeclaration(type, init, isObject) ==
    [type |-> type, init |-> init, isObject |-> isObject]

SourceFile(dir, name, decls) == [dir |-> dir, name |-> name, decls |-> decls]

\* The source files that exist: in src, the conventional file (two config
\* variables after another variable), a file whose name only ends with the
\* conventional name (its first config variable is not initialised by an
\* object literal), a backup whose name only includes it, and a file without
\* a config variable; outside src, a file with a config variable under
\* another name.
ConfigFile ==
    SourceFile("src", <<ConfigName>>,
        << VariableDeclaration("number", "port", FALSE),
           VariableDeclaration("VendureConfig", "configA", TRUE),
           VariableDeclaration("VendureConfig", "configB", TRUE) >>)
DevConfigFile ==
    SourceFile("src", <<"dev-", ConfigName>>,
        << VariableDeclaration("VendureConfig", "mergeConfig()", FALSE),
           VariableDeclaration("VendureConfig", "configE", TRUE) >>)
BackupFile ==
    SourceFile("src", <<ConfigName, ".bak">>,
        << VariableDeclaration("VendureConfig", "configC", TRUE) >>)
PlainFile ==
    SourceFile("src", <<"index.ts">>,
        << VariableDeclaration("Options", "options", TRUE) >>)
OtherConfigFile ==
    SourceFile("lib", <<"settings.ts">>,
        << VariableDeclaration("VendureConfig", "configD", TRUE) >>)

AllFiles == {ConfigFile, DevConfigFile, BackupFile, PlainFile, OtherConfigFile}

SrcFiles == {f \in AllFiles : f.dir = "src"}

NoRepeat(q) == \A i, j \in 1..Len(q) : q[i] = q[j] => i = j

\* the file of the src directory with the given name
SrcFileNamed(name) == CHOOSE f \in SrcFiles : f.name = name

isVendureConfigVariableDeclaration(v) == v.type = "VendureConfig"

\* sf.getVariableDeclarations().find(isVendureConfigVariableDeclaration), as
\* an index
FindConfigDeclaration(sf) ==
    FirstIndex({i \in 1..Len(sf.decls) : isVendureConfigVariableDeclaration(sf.decls[i])})

IsConfigSourceFile_AnyName(sf, checkFileName) ==
    FindConfigDeclaration(sf) # 0

\* the test of getVendureConfigSourceFile, lines 56-59
IsConfigSourceFile(sf, checkFileName) ==
    /\ (IF checkFileName THEN EndsWithConfigName(sf.name) ELSE TRUE)
    /\ FindConfigDeclaration(sf) # 0

getVendureConfigSourceFile(sourceFiles, checkFileName) ==
    FirstIndex({i \in 1..Len(sourceFiles) : IsConfigSourceFile(sourceFiles[i], checkFileName)})

\* project.addSourceFileAtPath: a file the project already holds is returned
\* as it is; a new one takes a place in the iteration order that the
\* project library chooses (pos)
AddSourceFileAtPath(project, file, pos) ==
    IF \E i \in 1..Len(project) : project[i] = file THEN project
    ELSE SubSeq(project, 1, pos) \o <<file>> \o SubSeq(project, pos + 1, Len(project))

findAndAddVendureConfigToProject(project, srcKnown, listing, pos) ==
    IF srcKnown
    THEN LET filePath == FirstIndex({i \in 1..Len(listing) : IncludesConfigName(listing[i])})
         IN IF filePath # 0
            THEN AddSourceFileAtPath(project, SrcFileNamed(listing[filePath]), pos)
            ELSE project
    ELSE project

NeedsFallback_Always(vendureConfigFile) == TRUE

\* line 79: if (!vendureConfigFile)
NeedsFallback(vendureConfigFile) == vendureConfigFile = 0

\* The object literal among the children of the first config variable of a
\* file, lines 83-87.
ConfigObjectOf(sf) ==
    LET v == sf.decls[FindConfigDeclaration(sf)]
    IN IF v.isObject THEN v.init ELSE Undefined

\* getVendureConfig(project, options): the value returned, the project as
\* the call leaves it, and how many searches and fallback loads it made.
\* checkFileNameOption is empty (not given) or holds the flag.
getVendureConfig(project, srcKnown, listing, checkFileNameOption, pos) ==
    LET checkFileName ==
            IF checkFileNameOption = {} THEN TRUE
            ELSE CHOOSE b \in checkFileNameOption : TRUE
        first == getVendureConfigSourceFile(project, checkFileName)
        fallback == NeedsFallback(first)
        after == IF fallback
                 THEN findAndAddVendureConfigToProject(project, srcKnown, listing, pos)
                 ELSE project
        vendureConfigFile ==
            IF fallback THEN getVendureConfigSourceFile(after, checkFileName) ELSE first
    IN [result |-> IF vendureConfigFile = 0 THEN Undefined
                   ELSE ConfigObjectOf(after[vendureConfigFile]),
        project |-> after,
        searches |-> IF fallback THEN 2 ELSE 1,
        fallbacks |-> IF fallback THEN 1 ELSE 0]

GvcNotCalled ==
    [called |-> FALSE, checkFileName |-> TRUE, before |-> <<>>, result |-> Undefined,
     searches |-> 0, fallbacks |-> 0]

\* Before the first call: the project holds some of the files, the listing
\* of src holds the files of src that are on disk, and those include the
\* ones the project holds.
ConfigInit ==
    /\ gvcProject \in {q \in SeqsUpTo(AllFiles, MaxFiles) : NoRepeat(q)}
    /\ gvcListing \in {q \in SeqsUpTo({f.name : f \in SrcFiles}, MaxFiles) : NoRepeat(q)}
    /\ \A i \in 1..Len(gvcProject) :
          gvcProject[i].dir = "src" =>
              \E j \in 1..Len(gvcListing) : gvcListing[j] = gvcProject[i].name
    /\ gvcSrcKnown \in BOOLEAN
    /\ (\E i \in 1..Len(gvcProject) : gvcProject[i].dir = "src") => gvcSrcKnown
    /\ gvcLast = GvcNotCalled

ConfigIdle ==
    /\ gvcProject = <<>>
    /\ gvcListing = <<>>
    /\ gvcSrcKnown = FALSE
    /\ gvcLast = GvcNotCalled

\* getVendureConfig(project, options)
GetVendureConfig ==
    \E checkFileNameOption \in {{}, {TRUE}, {FALSE}}, pos \in 0..Len(gvcProject) :
        LET r == getVendureConfig(gvcProject, gvcSrcKnown, gvcListing, checkFileNameOption, pos)
        IN /\ gvcProject' = r.project
           /\ gvcLast' = [called |-> TRUE,
                          checkFileName |-> checkFileNameOption # {FALSE},
                          before |-> gvcProject,
                          result |-> r.result,
                          searches |-> r.searches,
                          fallbacks |-> r.fallbacks]
           /\ UNCHANGED <<gvcSrcKnown, gvcListing>>

ConfigNext == GetVendureConfig /\ UNCHANGED <<pathVars, kebVars, impVars, ldVars, pipeVars>>

----------------------------------------------------------------------------
(* Properties of the Named-Config Locator *)

\* the files of the project, as the call left it, that the search accepts
ConfigCandidates ==
    {i \in 1..Len(gvcProject) :
        /\ gvcLast.checkFileName => EndsWithConfigName(gvcProject[i].name)
        /\ \E k \in 1..Len(gvcProject[i].decls) : gvcProject[i].decls[k].type = "VendureConfig"}

\* C4: the call returns the object-literal initializer of the first variable
\* typed VendureConfig of the first accepted file; undefined when there is no
\* accepted file even after the fallback load, or when that initializer is
\* not an object literal.
C4_FirstConfigWins ==
    gvcLast.called =>
        IF ConfigCandidates = {} THEN gvcLast.result = Undefined
        ELSE LET f == gvcProject[CHOOSE i \in ConfigCandidates :
                                    \A j \in ConfigCandidates : i <= j]
                 typed == {k \in 1..Len(f.decls) : f.decls[k].type = "VendureConfig"}
                 v == f.decls[CHOOSE k \in typed : \A l \in typed : k <= l]
             IN gvcLast.result = (IF v.isObject THEN v.init ELSE Undefined)

\* the conventional file was loaded by the fallback and its first config
\* variable, not its second, was returned
C4_Witness ==
    /\ gvcLast.called
    /\ gvcLast.fallbacks = 1
    /\ gvcLast.result = "configA"
    /\ Len(gvcProject) = 2

RECURSIVE IsSubsequence(_, _)
\* the elements of a, in their order, are among those of b
IsSubsequence(a, b) ==
    IF a = <<>> THEN TRUE
    ELSE IF b = <<>> THEN FALSE
    ELSE IF Head(a) = Head(b) THEN IsSubsequence(Tail(a), Tail(b))
    ELSE IsSubsequence(a, Tail(b))

\* C5: one call adds at most one source file and removes or changes none; a
\* call that finds the file among the loaded ones leaves the project as it
\* was; the fallback load is made at most once, followed by one more search.
C5_AtMostOneFileAdded ==
    gvcLast.called =>
        /\ IsSubsequence(gvcLast.before, gvcProject)
        /\ Len(gvcProject) <= Len(gvcLast.before) + 1
        /\ (\E i \in 1..Len(gvcLast.before) :
                /\ gvcLast.checkFileName => EndsWithConfigName(gvcLast.before[i].name)
                /\ \E k \in 1..Len(gvcLast.before[i].decls) :
                      gvcLast.before[i].decls[k].type = "VendureConfig")
              => (gvcProject = gvcLast.before /\ gvcLast.fallbacks = 0)
        /\ gvcLast.fallbacks <= 1
        /\ gvcLast.searches = 1 + gvcLast.fallbacks

\* a call whose fallback added a file to a project that held one already
C5_Witness ==
    /\ gvcLast.called
    /\ gvcLast.fallbacks = 1
    /\ Len(gvcLast.before) >= 1
    /\ Len(gvcProject) = Len(gvcLast.before) + 1

----------------------------------------------------------------------------
(* Project Loader: getTsMorphProject *)

\* the project options the function sets itself, lines 22-26
LoaderDefaults ==
    [tsConfigFilePath |-> "cwd/tsconfig.json",
     manipulationSettings |-> "defaultManipulationSettings",
     compilerOptions |-> "skipLibCheck"]

\* The options of a caller: a value for any of the keys of ProjectOptions.
CallerOptions ==
    UNION {[keys -> {"caller"}] :
             keys \in SUBSET {"tsConfigFilePath", "manipulationSettings", "compilerOptions",
                              "skipAddingFilesFromTsConfig"}}

\* { ...defaults, ...options }: a key of the options wins
SpreadOptions(defaults, options) ==
    [k \in DOMAIN defaults \cup DOMAIN options |->
        IF k \in DOMAIN options THEN options[k] ELSE defaults[k]]

ConfigurationMissing_UnlessOverridden(exists, options) ==
    ~exists /\ "tsConfigFilePath" \notin DOMAIN options

\* line 18: !fs.existsSync(tsConfigPath)
ConfigurationMissing(exists, options) == ~exists

\* getTsMorphProject(options): an exception, or a project with its settings
getTsMorphProject(exists, options) ==
    IF ConfigurationMissing(exists, options)
    THEN [outcome |-> "throw", settings |-> <<>>]
    ELSE [outcome |-> "project", settings |-> SpreadOptions(LoaderDefaults, options)]

LoaderNotCalled ==
    [outcome |-> "none", existed |-> FALSE, options |-> <<>>, settings |-> <<>>,
     projectsBefore |-> 0, loadsBefore |-> 0]

LoaderInit ==
    /\ fsTsConfig \in BOOLEAN
    /\ ldProjects = 0
    /\ ldLoads = 0
    /\ ldLast = LoaderNotCalled

LoaderIdle ==
    /\ fsTsConfig = FALSE
    /\ ldProjects = 0
    /\ ldLoads = 0
    /\ ldLast = LoaderNotCalled

\* getTsMorphProject(options).  Constructing the project loads the
\* configuration and the source files it names.
GetTsMorphProject ==
    \E options \in CallerOptions :
        LET r == getTsMorphProject(fsTsConfig, options)
        IN /\ r.outcome = "project" => ldProjects < MaxProjects
           /\ ldProjects' = IF r.outcome = "project" THEN ldProjects + 1 ELSE ldProjects
           /\ ldLoads' = IF r.outcome = "project" THEN ldLoads + 1 ELSE ldLoads
           /\ ldLast' = [outcome |-> r.outcome, existed |-> fsTsConfig, options |-> options,
                         settings |-> r.settings, projectsBefore |-> ldProjects,
                         loadsBefore |-> ldLoads]
           /\ UNCHANGED fsTsConfig

\* the user creates tsconfig.json in the working directory between two runs
CreateTsConfig ==
    /\ ~fsTsConfig
    /\ fsTsConfig' = TRUE
    /\ UNCHANGED <<ldProjects, ldLoads, ldLast>>

\* the user removes it
RemoveTsConfig ==
    /\ fsTsConfig
    /\ fsTsConfig' = FALSE
    /\ UNCHANGED <<ldProjects, ldLoads, ldLast>>

LoaderNext ==
    \/ GetTsMorphProject /\ UNCHANGED <<pathVars, kebVars, impVars, gvcVars, pipeVars>>
    \/ CreateTsConfig /\ UNCHANGED <<pathVars, kebVars, impVars, gvcVars, pipeVars>>
    \/ RemoveTsConfig /\ UNCHANGED <<pathVars, kebVars, impVars, gvcVars, pipeVars>>

----------------------------------------------------------------------------
(* Properties of the Project Loader *)

\* C9: without tsconfig.json in the working directory the call throws,
\* whatever the options, and constructs no project and loads no file; a
\* project is constructed only when the file exists.
C9_ThrowsWithoutConfiguration ==
    ldLast.outcome # "none" =>
        /\ ~ldLast.existed =>
              /\ ldLast.outcome = "throw"
              /\ ldProjects = ldLast.projectsBefore
              /\ ldLoads = ldLast.loadsBefore
        /\ ldLast.outcome = "project" => ldLast.existed
        /\ ldProjects > ldLast.projectsBefore => ldLast.existed

\* a call that overrides tsConfigFilePath, made after the file was removed
C9_Witness ==
    /\ ldLast.outcome = "throw"
    /\ "tsConfigFilePath" \in DOMAIN ldLast.options
    /\ ldLast.projectsBefore = 1
    /\ ldProjects = 1

----------------------------------------------------------------------------
(* LocaleDatePipe *)

\* uiState.language values: language codes, regions joined by underscores
LanguageCodes == { <<"en">>, <<"pt", "_", "BR">>, <<"zh", "_", "Hant", "_", "TW">> }

\* The arguments of transform.  A value is a Date, a string or something
\* else; format and locale are strings or something else.
PipeValues ==
    { [kind |-> "Date", text |-> "date"], [kind |-> "string", text |-> "2020-01-01"],
      [kind |-> "number", text |-> "0"], [kind |-> "undefined", text |-> ""] }

PipeFormats ==
    { [isString |-> TRUE, text |-> f] : f \in {"medium", "mediumTime", "longDate", "short", "full"} }
        \cup { [isString |-> FALSE, text |-> ""] }

PipeLocales ==
    { [isString |-> TRUE, text |-> <<"fr">>], [isString |-> TRUE, text |-> <<>>],
      [isString |-> FALSE, text |-> <<>>] }

\* languageCode.replace(/_/g, '-')
ReplaceUnderscores(languageCode) ==
    [i \in 1..Len(languageCode) |-> IF languageCode[i] = "_" THEN "-" ELSE languageCode[i]]

\* getOptionsForFormat: the options of a format name, none for another name
getOptionsForFormat(dateFormat) ==
    CASE dateFormat = "medium" ->
            {"month:short", "year:numeric", "day:numeric", "hour:numeric",
             "minute:numeric", "second:numeric", "hour12:true"}
      [] dateFormat = "mediumTime" ->
            {"hour:numeric", "minute:numeric", "second:numeric", "hour12:true"}
      [] dateFormat = "longDate" -> {"year:numeric", "month:long", "day:numeric"}
      [] dateFormat = "short" ->
            {"day:numeric", "month:numeric", "year:2-digit", "hour:numeric",
             "minute:numeric", "hour12:true"}
      [] OTHER -> {}

\* a JavaScript string is truthy when it is not empty; this.locale is a set
\* that is empty while the field is undefined
LocaleIsTruthy(thisLocale) == \E l \in thisLocale : l # <<>>

PipeUndefined == [kind |-> "undefined", locale |-> <<>>, options |-> {}, date |-> ""]

ActiveLocale_FieldFirst(thisLocale, locale) ==
    IF LocaleIsTruthy(thisLocale) THEN CHOOSE l \in thisLocale : TRUE ELSE locale.text

\* line 44: typeof locale === 'string' ? locale : this.locale
ActiveLocale(thisLocale, locale) ==
    IF locale.isString THEN locale.text ELSE CHOOSE l \in thisLocale : TRUE

\* transform(value, format, locale): undefined, or the text that
\* Intl.DateTimeFormat(activeLocale, options) gives for the date
transform(thisLocale, value, format, locale) ==
    IF LocaleIsTruthy(thisLocale) \/ locale.isString
    THEN IF value.kind \in {"Date", "string"}
         THEN [kind |-> "formatted",
               locale |-> ActiveLocale(thisLocale, locale),
               options |-> getOptionsForFormat(IF format.isString THEN format.text ELSE "medium"),
               date |-> value.text]
         ELSE PipeUndefined
    ELSE PipeUndefined

PipeNotCalled ==
    [called |-> FALSE, value |-> [kind |-> "undefined", text |-> ""],
     format |-> [isString |-> FALSE, text |-> ""],
     locale |-> [isString |-> FALSE, text |-> <<>>],
     emitted |-> {}, result |-> PipeUndefined]

\* The constructor subscribes to the UI language when it is given both a
\* data service and a change detector.
PipeInit ==
    /\ pipeSubscribed \in
          {dataService /\ changeDetectorRef : dataService \in BOOLEAN, changeDetectorRef \in BOOLEAN}
    /\ pipeLocale = {}
    /\ pipeMarks = 0
    /\ pipeEmitted = {}
    /\ pipeLast = PipeNotCalled

PipeIdle ==
    /\ pipeSubscribed = FALSE
    /\ pipeLocale = {}
    /\ pipeMarks = 0
    /\ pipeEmitted = {}
    /\ pipeLast = PipeNotCalled

\* the subscriber of lines 28-31: the UI language changed
LanguageChanged ==
    \E languageCode \in LanguageCodes :
        /\ pipeSubscribed
        /\ pipeMarks < MaxEvents
        /\ pipeLocale' = {ReplaceUnderscores(languageCode)}
        /\ pipeMarks' = pipeMarks + 1
        /\ pipeEmitted' = {languageCode}
        /\ UNCHANGED <<pipeSubscribed, pipeLast>>

\* ngOnDestroy()
NgOnDestroy ==
    /\ pipeSubscribed' = (IF pipeSubscribed THEN FALSE ELSE pipeSubscribed)
    /\ UNCHANGED <<pipeLocale, pipeMarks, pipeEmitted, pipeLast>>

\* transform(value, format, locale)
Transform ==
    \E value \in PipeValues, format \in PipeFormats, locale \in PipeLocales :
        /\ pipeLast' = [called |-> TRUE, value |-> value, format |-> format,
                        locale |-> locale, emitted |-> pipeEmitted,
                        result |-> transform(pipeLocale, value, format, locale)]
        /\ UNCHANGED <<pipeSubscribed, pipeLocale, pipeMarks, pipeEmitted>>

PipeNext ==
    \/ LanguageChanged /\ UNCHANGED <<pathVars, kebVars, impVars, gvcVars, ldVars>>
    \/ NgOnDestroy /\ UNCHANGED <<pathVars, kebVars, impVars, gvcVars, ldVars>>
    \/ Transform /\ UNCHANGED <<pathVars, kebVars, impVars, gvcVars, ldVars>>

----------------------------------------------------------------------------
(* Properties of the LocaleDatePipe *)

\* C10: transform returns undefined when no UI language was delivered yet
\* and the locale argument is not a string, or when the value is neither a
\* Date nor a string; otherwise it formats with the locale argument when that
\* is a string, else with the last UI language, hyphens for underscores.
C10_TransformLocale ==
    pipeLast.called =>
        IF \/ pipeLast.emitted = {} /\ ~pipeLast.locale.isString
           \/ pipeLast.value.kind \notin {"Date", "string"}
        THEN pipeLast.result.kind = "undefined"
        ELSE /\ pipeLast.result.kind = "formatted"
             /\ IF pipeLast.locale.isString
                THEN pipeLast.result.locale = pipeLast.locale.text
                ELSE \E code \in pipeLast.emitted :
                        /\ Len(pipeLast.result.locale) = Len(code)
                        /\ \A i \in 1..Len(code) :
                              pipeLast.result.locale[i] = (IF code[i] = "_" THEN "-" ELSE code[i])

\* a date string formatted in the UI language after two language changes,
\* the last one to a code with two underscores
C10_Witness ==
    /\ pipeLast.called
    /\ pipeMarks = 2
    /\ ~pipeLast.locale.isString
    /\ pipeLast.value.kind = "string"
    /\ pipeLast.result.kind = "formatted"
    /\ pipeLast.result.locale = <<"zh", "-", "Hant", "-", "TW">>

----------------------------------------------------------------------------
(* Properties of the Import Declaration Editor *)

\* C1: the file never holds two import declarations with the same module
\* specifier, whether the module is named by a string or by a file.
C1_NoDuplicateSpecifiers ==
    \A i, j \in 1..Len(impDecls) : impDecls[i].spec = impDecls[j].spec => i = j

\* C2: the named imports of every import declaration of the file are unique
\* by name.
C2_NamedImportsUnique ==
    \A k \in 1..Len(impDecls) :
        \A i, j \in 1..Len(impDecls[k].named) :
            impDecls[k].named[i] = impDecls[k].named[j] => i = j

\* a call that asked for a name the declaration had and for one it had not:
\* the declaration grew
C2_Witness ==
    /\ impLast.kind = "merged"
    /\ impLast.repeated
    /\ Len(impDecls[impLast.hit].named) > Len(impLast.before.named)

----------------------------------------------------------------------------
(* Properties of the Path Normalizer *)

RECURSIVE SplitSlash(_)
\* the segments of a slash-separated path (none for the empty path)
SplitSlash(s) ==
    IF s = <<>> THEN <<>>
    ELSE LET cut == {i \in 1..Len(s) : s[i] = Slash}
         IN IF cut = {} THEN <<s>>
            ELSE LET i == CHOOSE j \in cut : \A k \in cut : j <= k
                 IN <<SubSeq(s, 1, i - 1)>> \o SplitSlash(SubSeq(s, i + 1, Len(s)))

RECURSIVE Walk(_, _)
\* the location reached from base by following the segments of a relative
\* path: '..' goes to the parent, a name goes to the child of that name
Walk(base, segs) ==
    IF segs = <<>> THEN base
    ELSE IF Head(segs) = <<".", ".">>
         THEN Walk(SubSeq(base, 1, Len(base) - 1), Tail(segs))
         ELSE Walk(Append(base, Head(segs)), Tail(segs))

\* a file name without its extension: the text before its last dot, unless
\* that dot is its first character
WithoutExtension(seg) ==
    LET dots == {i \in 2..Len(seg) : seg[i] = "."}
    IN IF dots = {} THEN seg ELSE SubSeq(seg, 1, Max(dots) - 1)

\* where the import path has to lead: locations.from, its extension stripped
\* when the relative path ends in its name
ImportTarget ==
    IF IsPrefix(pathFrom, pathTo) THEN pathFrom
    ELSE SubSeq(pathFrom, 1, Len(pathFrom) - 1) \o <<WithoutExtension(pathFrom[Len(pathFrom)])>>

\* C8: for every pair of locations, getRelativeImportPath returns the
\* relative path that leads from `to` to `from`, the file extension stripped;
\* the result starts with './' and holds no backslash and no double slash.
C8_RelativeImportPath ==
    pathPc \in {"converted", "reconverted"} =>
        /\ StartsWith(pathOut, <<".", Slash>>)
        /\ \A i \in 1..Len(pathOut) : pathOut[i] # Backslash
        /\ ~HasSubstring(pathOut, <<Slash, Slash>>)
        /\ Walk(pathTo, SplitSlash(SubSeq(pathOut, 3, Len(pathOut)))) = ImportTarget

\* a file with an extension, reached through a parent directory, on a
\* platform whose separator is the backslash
C8_Witness ==
    /\ pathPc = "converted"
    /\ pathSep = Backslash
    /\ pathFrom = << <<"a">>, <<"b", ".", "t">> >>
    /\ pathTo = << <<"a", ".">>, <<"a">> >>
    /\ pathOut = <<".", "/", ".", ".", "/", ".", ".", "/", "a", "/", "b">>

\* C7: converting a path that is already an output of the conversion returns
\* it unchanged.
C7_Idempotent == pathPc = "reconverted" => pathAgain = pathOut

----------------------------------------------------------------------------
(* Properties of the Case Converter *)

\* a character that is an uppercase letter: it has a lowercase form
IsUpperCase(c) == ToLowerCase(c) # c

\* C6: kebabize lowercases every character and puts a '-' before exactly the
\* characters that are uppercase and are not the first.
C6_KebabizeContract ==
    kebPc = "done" =>
        kebOut = Concat([i \in 1..Len(kebIn) |->
                    (IF IsUpperCase(kebIn[i]) /\ i # 1 THEN <<"-">> ELSE <<>>)
                        \o <<ToLowerCase(kebIn[i])>>])

----------------------------------------------------------------------------
(* Specifications *)

InitPath == PathInit /\ KebIdle /\ ImportsIdle /\ ConfigIdle /\ LoaderIdle /\ PipeIdle

SpecPath == InitPath /\ [][PathNext]_vars

InitKebab ==
    KebInit /\ PathIdle /\ pathSep = Slash /\ ImportsIdle /\ ConfigIdle /\ LoaderIdle
        /\ PipeIdle

SpecKebab == InitKebab /\ [][KebNext]_vars

InitImports ==
    ImportsInit /\ PathIdle /\ pathSep = Slash /\ KebIdle /\ ConfigIdle /\ LoaderIdle
        /\ PipeIdle

SpecImports == InitImports /\ [][ImportsNext]_vars

InitConfig ==
    ConfigInit /\ PathIdle /\ pathSep = Slash /\ KebIdle /\ ImportsIdle /\ LoaderIdle
        /\ PipeIdle

SpecConfig == InitConfig /\ [][ConfigNext]_vars

InitLoader ==
    LoaderInit /\ PathIdle /\ pathSep = Slash /\ KebIdle /\ ImportsIdle /\ ConfigIdle
        /\ PipeIdle

SpecLoader == InitLoader /\ [][LoaderNext]_vars

InitPipe ==
    PipeInit /\ PathIdle /\ pathSep = Slash /\ KebIdle /\ ImportsIdle /\ ConfigIdle
        /\ LoaderIdle

SpecPipe == InitPipe /\ [][PipeNext]_vars

====
